---- MODULE Spec2Model ----
(***************************************************************************)
(* Model of the Discord MCP server's tool dispatch (src/src/index.ts):     *)
(* the CallToolRequestSchema handler, ensureDiscordReady and the paginated *)
(* filtered history scan getMessagesAdvanced.  Each await of the code is a *)
(* suspension point and so a separate action; the synchronous code between *)
(* two awaits is one atomic step.                                          *)
(***************************************************************************)
EXTENDS Integers, Sequences, FiniteSets, TLC

(***************************************************************************)
(* JavaScript values.  An optional value is a sequence of length <= 1:     *)
(* <<>> is undefined, <<v>> is the value v.  Strings that the code looks   *)
(* into (contents, keywords) are sequences of one-character strings.       *)
(***************************************************************************)
Undefined == <<>>

Some(v) == <<v>>

\* `x || d`, `if (x)`, `x ? a : b` on an optional number: undefined, 0 are falsy
TruthyNum(o) == o # Undefined /\ o[1] # 0

\* the same on an optional string: undefined and the empty string are falsy
TruthyStr(o) == o # Undefined /\ o[1] # ""

\* the same on an optional string held as a sequence of characters
TruthyChars(o) == o # Undefined /\ o[1] # <<>>

\* the same on an optional boolean
TruthyBool(o) == o # Undefined /\ o[1]

\* String.prototype.toLowerCase on one character (the alphabet of the model)
LowerChar(ch) ==
    CASE ch = "E" -> "e"
      [] ch = "R" -> "r"
      [] ch = "O" -> "o"
      [] OTHER -> ch

\* String.prototype.toLowerCase
toLowerCase(s) == [i \in 1..Len(s) |-> LowerChar(s[i])]

\* String.prototype.includes: sub occurs in s as a contiguous substring
includes(s, sub) ==
    \E i \in 0..(Len(s) - Len(sub)) : SubSeq(s, i + 1, i + Len(sub)) = sub

(***************************************************************************)
(* Dates.  A timestamp is a number of milliseconds; NaN is the time value  *)
(* of an Invalid Date.  A date string is either the ISO form of a          *)
(* timestamp or text that Date cannot parse.                               *)
(***************************************************************************)
NaN == -1

\* the ISO-8601 string of a timestamp (Date.prototype.toISOString's result)
IsoString(ms) == [fmt |-> "iso", ms |-> ms]

\* a string no Date parser accepts, such as "next tuesday-ish"
JunkDateString == [fmt |-> "junk", ms |-> 0]

\* new Date(string): the time value, NaN when the string does not parse
NewDate(str) == IF str.fmt = "iso" THEN str.ms ELSE NaN

\* `params.startDate ? new Date(params.startDate) : null`; null is <<>>
ParseDateParam(o) == IF o # Undefined THEN Some(NewDate(o[1])) ELSE Undefined

\* Date < Date and Date > Date compare time values; any comparison with NaN is false
DateLess(a, b) == a # NaN /\ b # NaN /\ a < b

\* Date.prototype.toISOString throws RangeError on an Invalid Date
ToISOStringThrows(d) == d = NaN

(***************************************************************************)
(* The channel history held by the chat platform.  Message ids are the     *)
(* positive integers 1..len, a larger id being a later message; the        *)
(* creation timestamp is derived from the id (as a snowflake's is), `tie`  *)
(* consecutive ids sharing one millisecond.  The message with id i is of   *)
(* kind pat[1] when i is a multiple of stride and of kind pat[2] otherwise.*)
(***************************************************************************)
BatchLimit == 100

LongHistory == 1100

MidHistory == 250

ShortHistory == 3

RareStride == 150

Patterns == {<<"A", "B">>, <<"B", "C">>}

HistoryLens == {0, ShortHistory, BatchLimit, MidHistory, LongHistory}

Histories ==
    [len : HistoryLens, stride : {2, RareStride}, pat : Patterns,
     tie : {1, 2}, order : {"newestFirst", "oldestFirst"}]

KindOf(h, id) == IF id % h.stride = 0 THEN h.pat[1] ELSE h.pat[2]

\* Message.createdTimestamp, a function of the id
createdTimestamp(h, id) == (id + h.tie - 1) \div h.tie

Attachment(n) ==
    [name |-> "a.png", url |-> "cdn/a.png", size |-> n, contentType |-> "image/png"]

\* the Message objects a fetch returns: the fields the scan reads
Message(h, id) ==
    LET k == KindOf(h, id) IN
    [id |-> id,
     createdTimestamp |-> createdTimestamp(h, id),
     username |-> CASE k = "A" -> "alice" [] k = "B" -> "bob" [] OTHER -> "carol",
     authorId |-> CASE k = "A" -> "u1" [] k = "B" -> "alice" [] OTHER -> "u3",
     content |-> CASE k = "A" -> <<"E", "r", "r">>
                   [] k = "B" -> <<"o", "k">>
                   [] OTHER -> <<"x", "e", "R", "R", "O">>,
     attachments |-> IF k = "A" THEN <<Attachment(10)>> ELSE <<>>,
     embeds |-> IF k = "B" THEN 1 ELSE 0,
     reactions |-> IF k = "C" THEN 2 ELSE 0]

Min(a, b) == IF a < b THEN a ELSE b

Max(a, b) == IF a > b THEN a ELSE b

\* textChannel.messages.fetch(fetchOptions): the (at most limit) newest
\* messages older than `before` and newer than `after`, in the order the
\* collaborator happens to deliver them
FetchBatch(h, fetchOptions) ==
    LET hi == IF fetchOptions.before # Undefined
              THEN Min(fetchOptions.before[1] - 1, h.len) ELSE h.len
        lo0 == IF fetchOptions.after # Undefined
               THEN Max(fetchOptions.after[1] + 1, 1) ELSE 1
        lo == Max(lo0, hi - fetchOptions.limit + 1)
        n == IF hi >= lo THEN hi - lo + 1 ELSE 0
    IN  IF h.order = "newestFirst"
        THEN [i \in 1..n |-> Message(h, hi - i + 1)]
        ELSE [i \in 1..n |-> Message(h, lo + i - 1)]

(***************************************************************************)
(* getMessagesAdvanced: the body of one loop iteration after the fetch     *)
(* has resolved (src/src/index.ts lines 409-477).                          *)
(***************************************************************************)
DefaultLimit == 50

maxIterations == 10

\* `limit: args.limit as number || 50` and `params.limit || 50`
targetLimit(params) == IF TruthyNum(params.limit) THEN params.limit[1] ELSE DefaultLimit

\* the comparator of messageArray.sort: a negative result puts a before b
NewerFirst(a, b) == b.createdTimestamp - a.createdTimestamp < 0

\* the array left as delivered (the sort left out)
SortOmitted(messages) == messages

\* messageArray.sort((a, b) => b.createdTimestamp - a.createdTimestamp):
\* a stable sort, newest first
SortNewestFirst(messages) == SortSeq(messages, NewerFirst)

\* `startDate && msg.createdAt < startDate`
BeforeStartDate(msg, startDate) ==
    startDate # Undefined /\ DateLess(msg.createdTimestamp, startDate[1])

\* `endDate && msg.createdAt > endDate`
AfterEndDate(msg, endDate) ==
    endDate # Undefined /\ DateLess(endDate[1], msg.createdTimestamp)

\* `params.keyword && !msg.content.toLowerCase().includes(params.keyword.toLowerCase())`
KeywordMismatch(msg, params) ==
    /\ TruthyChars(params.keyword)
    /\ ~includes(toLowerCase(msg.content), toLowerCase(params.keyword[1]))

\* `if (params.author) { ...; if (!authorMatch) continue; }`
AuthorMismatch(msg, params) ==
    /\ TruthyStr(params.author)
    /\ ~(msg.username = params.author[1] \/ msg.authorId = params.author[1])

\* the attachment filter never rejecting a message
AttachmentFilterOmitted(msg, params) == FALSE

\* `params.hasAttachments && msg.attachments.size === 0`
AttachmentMismatch(msg, params) ==
    TruthyBool(params.hasAttachments) /\ Len(msg.attachments) = 0

\* the record pushed onto allMessages
Projection(msg) ==
    [id |-> msg.id,
     author |-> msg.username,
     authorId |-> msg.authorId,
     content |-> msg.content,
     timestamp |-> IsoString(msg.createdTimestamp),
     attachments |-> [i \in 1..Len(msg.attachments) |-> msg.attachments[i]],
     embeds |-> msg.embeds,
     reactions |-> msg.reactions]

\* the target test with `>` in place of `>=`
TargetReachedLate(pushed, params) == Len(pushed) > targetLimit(params)

\* `if (allMessages.length >= targetLimit) break;`
TargetReached(pushed, params) == Len(pushed) >= targetLimit(params)

\* the loop body with `continue` in place of the return on a message older
\* than the start date
ForBodyNoReturn(messageArray, i, st, params, startDate, endDate) ==
    LET msg == messageArray[i] IN
    IF \/ BeforeStartDate(msg, startDate)
       \/ AfterEndDate(msg, endDate)
       \/ KeywordMismatch(msg, params)
       \/ AuthorMismatch(msg, params)
       \/ AttachmentMismatch(msg, params)
    THEN [st EXCEPT !.evaluated = i]
    ELSE LET pushed == Append(st.allMessages, Projection(msg)) IN
         [allMessages |-> pushed,
          exit |-> IF TargetReached(pushed, params) THEN "break" ELSE "running",
          evaluated |-> i]

\* one pass through the body of `for (const msg of messageArray)` (lines
\* 416-466) for element i.  st.exit is "running" while the loop goes on,
\* "return" once the start-date test has returned from the function and
\* "break" once the target was reached; st.evaluated counts the elements
\* the body was entered for.
ForBody(messageArray, i, st, params, startDate, endDate) ==
    LET msg == messageArray[i] IN
    IF BeforeStartDate(msg, startDate)
    THEN [st EXCEPT !.exit = "return", !.evaluated = i]
    ELSE IF \/ AfterEndDate(msg, endDate)
            \/ KeywordMismatch(msg, params)
            \/ AuthorMismatch(msg, params)
            \/ AttachmentMismatch(msg, params)
    THEN [st EXCEPT !.evaluated = i]
    ELSE LET pushed == Append(st.allMessages, Projection(msg)) IN
         [allMessages |-> pushed,
          exit |-> IF TargetReached(pushed, params) THEN "break" ELSE "running",
          evaluated |-> i]

\* the for loop over elements lo..hi, in order, stopping at the first
\* return or break (the range is halved to keep the evaluation shallow)
RECURSIVE ForRange(_, _, _, _, _, _, _)
ForRange(messageArray, lo, hi, st, params, startDate, endDate) ==
    IF st.exit # "running" \/ lo > hi
    THEN st
    ELSE IF lo = hi
    THEN ForBody(messageArray, lo, st, params, startDate, endDate)
    ELSE LET mid == (lo + hi) \div 2
             left == ForRange(messageArray, lo, mid, st, params, startDate, endDate)
         IN  ForRange(messageArray, mid + 1, hi, left, params, startDate, endDate)

\* `for (const msg of messageArray) { ... }`: exit is "end" when the array
\* ran out
ForEachMessage(messageArray, allMessages, params, startDate, endDate) ==
    LET st == ForRange(messageArray, 1, Len(messageArray),
                       [allMessages |-> allMessages, exit |-> "running",
                        evaluated |-> 0],
                       params, startDate, endDate)
    IN  [st EXCEPT !.exit = IF @ = "running" THEN "end" ELSE @]

(***************************************************************************)
(* Responses.  A response is { content: [{ type: 'text', text }] }; the    *)
(* text is kept as the template that produced it (form) together with the  *)
(* values interpolated into it.                                            *)
(***************************************************************************)
NoSummary == [total |-> 0, present |-> FALSE]

NoResponse ==
    [form |-> "none", message |-> "", count |-> 0, summary |-> NoSummary,
     messages |-> <<>>]

\* the catch block of the call-tool handler: `Error: ${error.message}`
ErrorResponse(message) ==
    [form |-> "Error: ${message}", message |-> message, count |-> 0,
     summary |-> NoSummary, messages |-> <<>>]

\* the return inside the for loop (start date crossed):
\* `Retrieved ${allMessages.length} messages matching criteria:\n\n${JSON}`
RetrievedResponse(allMessages) ==
    [form |-> "Retrieved ${n} messages matching criteria", message |-> "",
     count |-> Len(allMessages), summary |-> NoSummary, messages |-> allMessages]

\* the return at the end of getMessagesAdvanced:
\* `Advanced search results:\n\nSummary: ${JSON}\n\nMessages:\n${JSON}`
AdvancedResponse(summary, allMessages) ==
    [form |-> "Advanced search results", message |-> "", count |-> 0,
     summary |-> summary, messages |-> allMessages]

\* `const summary = { total, filters: {...}, pagination: {...} }`
BuildSummary(params, startDate, endDate, allMessages, totalFetched) ==
    [present |-> TRUE,
     total |-> Len(allMessages),
     dateRange |->
        IF startDate # Undefined \/ endDate # Undefined
        THEN [from |-> IF startDate # Undefined
                       THEN Some(IsoString(startDate[1])) ELSE Undefined,
              to |-> IF endDate # Undefined
                     THEN Some(IsoString(endDate[1])) ELSE Undefined]
        ELSE [from |-> Undefined, to |-> Undefined],
     dateRangeNone |-> ~(startDate # Undefined \/ endDate # Undefined),
     keyword |-> IF TruthyChars(params.keyword)
                 THEN params.keyword[1] ELSE <<"n", "o", "n", "e">>,
     author |-> IF TruthyStr(params.author) THEN params.author[1] ELSE "any",
     hasAttachments |-> TruthyBool(params.hasAttachments),
     before |-> IF params.before # Undefined THEN params.before ELSE Undefined,
     after |-> IF params.after # Undefined THEN params.after ELSE Undefined,
     totalFetched |-> totalFetched]

\* building the summary calls toISOString on each Date object that is set
SummaryThrows(startDate, endDate) ==
    \/ startDate # Undefined /\ ToISOStringThrows(startDate[1])
    \/ endDate # Undefined /\ ToISOStringThrows(endDate[1])

\* lines 480-505: the summary and the final return, or the RangeError that
\* the handler's catch block turns into an error response
FinalResponse(params, allMessages, totalFetched) ==
    LET startDate == ParseDateParam(params.startDate)
        endDate == ParseDateParam(params.endDate)
    IN  IF SummaryThrows(startDate, endDate)
        THEN ErrorResponse("Invalid time value")
        ELSE AdvancedResponse(
                 BuildSummary(params, startDate, endDate, allMessages, totalFetched),
                 allMessages)

(***************************************************************************)
(* The inputs of a tool invocation.                                        *)
(***************************************************************************)
MaxSupplied == 2

StartMs == 120

EndMs == 130

Calls == {1, 2}

ToolNames == {"discord_get_messages_advanced", "no_such_tool"}

ChannelIds == {"123"}

\* what channels.fetch resolves with: a text channel, a channel that is not
\* text based, or null
ChannelKinds == {"text", "category", "null"}

StartDateArgs == {Undefined, Some(JunkDateString), Some(IsoString(StartMs))}

EndDateArgs == {Undefined, Some(JunkDateString), Some(IsoString(EndMs))}

OptionalFields ==
    {"limit", "before", "after", "start_date", "end_date", "keyword", "author",
     "has_attachments"}

AllArguments ==
    [channel_id : ChannelIds,
     limit : {Undefined, Some(2), Some(BatchLimit + 1)},
     before : {Undefined, Some(BatchLimit + 2)},
     after : {Undefined, Some(1)},
     start_date : StartDateArgs,
     end_date : EndDateArgs,
     keyword : {Undefined, Some(<<"e", "R", "r">>), Some(<<"z">>)},
     author : {Undefined, Some("alice")},
     has_attachments : {Undefined, Some(TRUE)}]

\* the argument records a client sends: at most MaxSupplied optional fields
Arguments ==
    {a \in AllArguments :
        Cardinality({f \in OptionalFields : a[f] # Undefined}) <= MaxSupplied}

\* the object literal passed to getMessagesAdvanced (lines 221-231)
ParamsOf(args) ==
    [channelId |-> args.channel_id,
     limit |-> IF TruthyNum(args.limit) THEN args.limit ELSE Some(DefaultLimit),
     before |-> args.before,
     after |-> args.after,
     startDate |-> args.start_date,
     endDate |-> args.end_date,
     keyword |-> args.keyword,
     author |-> args.author,
     hasAttachments |-> args.has_attachments]

NoParams == ParamsOf(CHOOSE a \in AllArguments :
                        \A f \in OptionalFields : a[f] = Undefined)

(***************************************************************************)
(* State.                                                                  *)
(***************************************************************************)
VARIABLES
    history,        \* the channel's message history, owned by the chat platform
    token,          \* process.env.DISCORD_BOT_TOKEN is set
    ready,          \* discordClient.isReady()
    pc,             \* per invocation: the await it is suspended at
    request,        \* per invocation: request.params (tool name and arguments)
    channel,        \* per invocation: what channels.fetch resolved with
    params,         \* per invocation: the params of getMessagesAdvanced
    allMessages,    \* per invocation: the accumulator
    lastMessageId,  \* per invocation: the cursor
    iterations,     \* per invocation: the iteration counter
    totalFetched,   \* per invocation: the total-fetched counter
    requests,       \* per invocation: the fetchOptions of every messages.fetch call
    lastBatch,      \* per invocation: the latest batch received: the iteration
                    \* it belongs to, its size, how its for loop ended and
                    \* how many of its messages the loop body was entered for
    response        \* per invocation: the handler's return value

vars ==
    <<history, token, ready, pc, request, channel, params, allMessages,
      lastMessageId, iterations, totalFetched, requests, lastBatch, response>>

NoBatch == [iteration |-> 0, size |-> 0, exit |-> "none", evaluated |-> 0]

NoRequest == [name |-> "", arguments |-> Undefined]

Init ==
    /\ history \in Histories
    /\ token \in BOOLEAN
    /\ ready = FALSE
    /\ pc = [c \in Calls |-> "idle"]
    /\ request = [c \in Calls |-> NoRequest]
    /\ channel = [c \in Calls |-> "none"]
    /\ params = [c \in Calls |-> NoParams]
    /\ allMessages = [c \in Calls |-> <<>>]
    /\ lastMessageId = [c \in Calls |-> Undefined]
    /\ iterations = [c \in Calls |-> 0]
    /\ totalFetched = [c \in Calls |-> 0]
    /\ requests = [c \in Calls |-> <<>>]
    /\ lastBatch = [c \in Calls |-> NoBatch]
    /\ response = [c \in Calls |-> NoResponse]

(***************************************************************************)
(* Actions.  pc[c] names the await invocation c is suspended at:           *)
(* "login" (discordClient.login), "ensured" (ensureDiscordReady returned), *)
(* "channel" (channels.fetch), "fetching" (messages.fetch); "done" when    *)
(* the handler has returned its response.                                  *)
(***************************************************************************)
\* the handler returns resp
Finish(c, resp) ==
    /\ pc' = [pc EXCEPT ![c] = "done"]
    /\ response' = [response EXCEPT ![c] = resp]

\* an error thrown anywhere inside the handler's try block: the catch block
\* (lines 236-245) returns the error response
Throw(c, message) == Finish(c, ErrorResponse(message))

\* the options with the cursor never advanced past the query's `before`
FetchOptionsStaleCursor(p, last) ==
    [limit |-> BatchLimit,
     before |-> IF p.before # Undefined THEN p.before ELSE Undefined,
     after |-> IF p.after # Undefined THEN p.after ELSE Undefined]

\* lines 399-401: the options of the next messages.fetch call
FetchOptions(p, last) ==
    [limit |-> BatchLimit,
     before |-> IF last # Undefined THEN last ELSE Undefined,
     after |-> IF p.after # Undefined THEN p.after ELSE Undefined]

\* the while test with the iteration counter held in one place for all
\* invocations (a field of the server in place of a local)
WhileTestSharedCounter(c, msgs, last, iters, total) ==
    /\ allMessages' = [allMessages EXCEPT ![c] = msgs]
    /\ lastMessageId' = [lastMessageId EXCEPT ![c] = last]
    /\ totalFetched' = [totalFetched EXCEPT ![c] = total]
    /\ IF Len(msgs) < targetLimit(params[c]) /\ iters < maxIterations
       THEN /\ iterations' = [d \in Calls |-> iters + 1]
            /\ requests' = [requests EXCEPT
                              ![c] = Append(@, FetchOptions(params[c], last))]
            /\ pc' = [pc EXCEPT ![c] = "fetching"]
            /\ UNCHANGED response
       ELSE /\ iterations' = [d \in Calls |-> iters]
            /\ UNCHANGED requests
            /\ Finish(c, FinalResponse(params[c], msgs, total))

\* line 395: the while test with the locals as given; either the next
\* iteration starts and suspends at messages.fetch, or the loop is left
\* and lines 480-505 produce the response
WhileTest(c, msgs, last, iters, total) ==
    /\ allMessages' = [allMessages EXCEPT ![c] = msgs]
    /\ lastMessageId' = [lastMessageId EXCEPT ![c] = last]
    /\ totalFetched' = [totalFetched EXCEPT ![c] = total]
    /\ IF Len(msgs) < targetLimit(params[c]) /\ iters < maxIterations
       THEN /\ iterations' = [iterations EXCEPT ![c] = iters + 1]
            /\ requests' = [requests EXCEPT
                              ![c] = Append(@, FetchOptions(params[c], last))]
            /\ pc' = [pc EXCEPT ![c] = "fetching"]
            /\ UNCHANGED response
       ELSE /\ iterations' = [iterations EXCEPT ![c] = iters]
            /\ UNCHANGED requests
            /\ Finish(c, FinalResponse(params[c], msgs, total))

\* the call-tool handler up to its first suspension (lines 189-235, 376,
\* 508-518)
CallTool(c, name, args) ==
    /\ pc[c] = "idle"
    /\ request' = [request EXCEPT ![c] = [name |-> name, arguments |-> args]]
    /\ UNCHANGED <<history, token, ready, channel, allMessages, lastMessageId,
                   iterations, totalFetched, requests, lastBatch>>
    /\ IF args = Undefined
       THEN /\ Throw(c, "Arguments are required")
            /\ UNCHANGED params
       ELSE IF name # "discord_get_messages_advanced"
       THEN /\ Throw(c, "Unknown tool")
            /\ UNCHANGED params
       ELSE /\ params' = [params EXCEPT ![c] = ParamsOf(args[1])]
            /\ IF ready
               THEN /\ pc' = [pc EXCEPT ![c] = "ensured"]
                    /\ UNCHANGED response
               ELSE IF ~token
               THEN /\ Throw(c, "DISCORD_BOT_TOKEN environment variable is required")
               ELSE /\ pc' = [pc EXCEPT ![c] = "login"]
                    /\ UNCHANGED response

\* `await this.discordClient.login(token)` resolves (lines 518-519)
LoginResolve(c) ==
    /\ pc[c] = "login"
    /\ ready' = TRUE
    /\ pc' = [pc EXCEPT ![c] = "ensured"]
    /\ UNCHANGED <<history, token, request, channel, params, allMessages, lastMessageId,
                   iterations, totalFetched, requests, lastBatch,
                   response>>

\* `await this.discordClient.login(token)` rejects
LoginReject(c) ==
    /\ pc[c] = "login"
    /\ Throw(c, "An invalid token was provided.")
    /\ UNCHANGED <<history, token, ready, request, channel, params, allMessages,
                   lastMessageId, iterations, totalFetched, requests, lastBatch>>

\* line 378: getMessagesAdvanced resumes and calls channels.fetch
ChannelsFetch(c) ==
    /\ pc[c] = "ensured"
    /\ pc' = [pc EXCEPT ![c] = "channel"]
    /\ UNCHANGED <<history, token, ready, request, channel, params, allMessages,
                   lastMessageId, iterations, totalFetched, requests, lastBatch, response>>

\* lines 378-395: channels.fetch resolves; the locals are initialised and
\* the while loop is entered
ChannelResolve(c) ==
    /\ pc[c] = "channel"
    /\ UNCHANGED <<history, token, ready, request, params, lastBatch>>
    /\ \E ch \in ChannelKinds :
       /\ channel' = [channel EXCEPT ![c] = ch]
       /\ IF ch # "text"
          THEN /\ Throw(c, "Channel not found or is not a text channel")
               /\ UNCHANGED <<allMessages, lastMessageId, iterations, totalFetched,
                              requests>>
          ELSE WhileTest(c, <<>>, params[c].before, 0, 0)

\* channels.fetch rejects (unknown channel, request failure)
ChannelReject(c) ==
    /\ pc[c] = "channel"
    /\ Throw(c, "Unknown Channel")
    /\ UNCHANGED <<history, token, ready, request, channel, params, allMessages,
                   lastMessageId, iterations, totalFetched, requests, lastBatch>>

\* lines 403-478: messages.fetch resolves with the batch; the rest of the
\* iteration runs, then the while test
FetchResolve(c) ==
    /\ pc[c] = "fetching"
    /\ UNCHANGED <<history, token, ready, request, channel, params>>
    /\ \E messages \in {FetchBatch(history, requests[c][Len(requests[c])])} :
       \E sorted \in {SortNewestFirst(messages)} :
       \E loop \in {ForEachMessage(sorted, allMessages[c], params[c],
                                   ParseDateParam(params[c].startDate),
                                   ParseDateParam(params[c].endDate))} :
           IF Len(messages) = 0
           THEN /\ lastBatch' = [lastBatch EXCEPT
                                   ![c] = [iteration |-> iterations[c], size |-> 0,
                                           exit |-> "none", evaluated |-> 0]]
                /\ Finish(c, FinalResponse(params[c], allMessages[c], totalFetched[c]))
                /\ UNCHANGED <<allMessages, lastMessageId, iterations, totalFetched,
                               requests>>
           ELSE /\ lastBatch' = [lastBatch EXCEPT
                                   ![c] = [iteration |-> iterations[c],
                                           size |-> Len(messages),
                                           exit |-> loop.exit,
                                           evaluated |-> loop.evaluated]]
                /\ IF loop.exit = "return"
                   THEN /\ Finish(c, RetrievedResponse(loop.allMessages))
                        /\ allMessages' = [allMessages EXCEPT ![c] = loop.allMessages]
                        /\ UNCHANGED <<lastMessageId, iterations, totalFetched,
                                       requests>>
                   ELSE IF Len(messages) < BatchLimit
                   THEN /\ Finish(c, FinalResponse(params[c], loop.allMessages,
                                        totalFetched[c] + Len(messages)))
                        /\ allMessages' = [allMessages EXCEPT ![c] = loop.allMessages]
                        /\ lastMessageId' = [lastMessageId EXCEPT
                                               ![c] = Some(sorted[Len(sorted)].id)]
                        /\ totalFetched' = [totalFetched EXCEPT
                                              ![c] = @ + Len(messages)]
                        /\ UNCHANGED <<iterations, requests>>
                   ELSE WhileTest(c, loop.allMessages, Some(sorted[Len(sorted)].id),
                                  iterations[c], totalFetched[c] + Len(messages))

\* a rejected messages.fetch degrading to a truncated success: the loop is
\* left and the matches accumulated so far are returned
FetchRejectTruncates(c) ==
    /\ pc[c] = "fetching"
    /\ Finish(c, FinalResponse(params[c], allMessages[c], totalFetched[c]))
    /\ UNCHANGED <<history, token, ready, request, channel, params, allMessages,
                   lastMessageId, iterations, totalFetched, requests, lastBatch>>

\* messages.fetch rejects: the error propagates to the handler's catch block
FetchReject(c) ==
    /\ pc[c] = "fetching"
    /\ Throw(c, "Request failed")
    /\ UNCHANGED <<history, token, ready, request, channel, params, allMessages,
                   lastMessageId, iterations, totalFetched, requests, lastBatch>>

\* the response has been sent; the invocation's locals are gone
Return(c) ==
    /\ pc[c] = "done"
    /\ pc' = [pc EXCEPT ![c] = "idle"]
    /\ request' = [request EXCEPT ![c] = NoRequest]
    /\ channel' = [channel EXCEPT ![c] = "none"]
    /\ params' = [params EXCEPT ![c] = NoParams]
    /\ allMessages' = [allMessages EXCEPT ![c] = <<>>]
    /\ lastMessageId' = [lastMessageId EXCEPT ![c] = Undefined]
    /\ iterations' = [iterations EXCEPT ![c] = 0]
    /\ totalFetched' = [totalFetched EXCEPT ![c] = 0]
    /\ requests' = [requests EXCEPT ![c] = <<>>]
    /\ lastBatch' = [lastBatch EXCEPT ![c] = NoBatch]
    /\ response' = [response EXCEPT ![c] = NoResponse]
    /\ UNCHANGED <<history, token, ready>>

Invoke(c) ==
    \E name \in ToolNames, args \in {Undefined} \cup {Some(a) : a \in Arguments} :
        CallTool(c, name, args)

Step(c) ==
    \/ Invoke(c)
    \/ LoginResolve(c)
    \/ LoginReject(c)
    \/ ChannelsFetch(c)
    \/ ChannelResolve(c)
    \/ ChannelReject(c)
    \/ FetchResolve(c)
    \/ FetchReject(c)
    \/ Return(c)

\* tool invocations arriving one at a time
FirstCall == CHOOSE c \in Calls : \A d \in Calls : c <= d

Next == Step(FirstCall)

Spec == Init /\ [][Next]_vars

(***************************************************************************)
(* Tool invocations in flight at the same time: the handler is async, so a *)
(* second request can be dispatched while the first is suspended at an     *)
(* await.  The same actions interleave, over fewer histories and queries.  *)
(***************************************************************************)
ConcHistories ==
    {h \in Histories :
        /\ h.len \in {ShortHistory, MidHistory}
        /\ h.stride = 2 /\ h.pat = <<"A", "B">>
        /\ h.tie = 1 /\ h.order = "newestFirst"}

ConcArguments ==
    {a \in Arguments :
        /\ \A f \in OptionalFields \ {"limit", "keyword"} : a[f] = Undefined
        /\ a.limit \in {Undefined, Some(BatchLimit + 1)}
        /\ a.keyword \in {Undefined, Some(<<"e", "R", "r">>)}}

ConcInit == Init /\ history \in ConcHistories

ConcInvoke(c) ==
    \E name \in ToolNames, args \in {Undefined} \cup {Some(a) : a \in ConcArguments} :
        CallTool(c, name, args)

ConcStep(c) ==
    \/ ConcInvoke(c)
    \/ LoginResolve(c)
    \/ LoginReject(c)
    \/ ChannelsFetch(c)
    \/ ChannelResolve(c)
    \/ ChannelReject(c)
    \/ FetchResolve(c)
    \/ FetchReject(c)
    \/ Return(c)

ConcNext == \E c \in Calls : ConcStep(c)

ConcSpec == ConcInit /\ [][ConcNext]_vars

(***************************************************************************)
(* Vocabulary of the properties.                                           *)
(***************************************************************************)
\* invocation c is a discord_get_messages_advanced call that carries arguments
Scanning(c) ==
    /\ request[c].name = "discord_get_messages_advanced"
    /\ request[c].arguments # Undefined

\* the argument record of invocation c
ArgsOf(c) == request[c].arguments[1]

\* the handler has returned a success response / an error response
Succeeded(c) ==
    pc[c] = "done" /\ response[c].form \in
        {"Advanced search results", "Retrieved ${n} messages matching criteria"}

Failed(c) == pc[c] = "done" /\ response[c].form = "Error: ${message}"

\* the argument is a date string that parses
ValidDate(o) == o # Undefined /\ o[1].fmt = "iso"

\* the argument is a non-empty date string that does not parse
MalformedDate(o) == o # Undefined /\ o[1].fmt = "junk"

\* the messages invocation c has accumulated, and those its response carries
ResultsOf(c) == {allMessages[c], response[c].messages}

\* the sorted array of the latest batch invocation c received
LatestArray(c) ==
    SortNewestFirst(FetchBatch(history, requests[c][lastBatch[c].iteration]))

\* a messages.fetch call of invocation c was rejected
FetchFailed(c) == pc[c] = "done" /\ Len(requests[c]) > lastBatch[c].iteration

(***************************************************************************)
(* C1.  The message sequence of a scan never holds more messages than the  *)
(* requested limit (a limit of at least 1), and never more than 50 when    *)
(* the limit is omitted: at every point of the scan for the accumulator,   *)
(* and for the sequence the response carries.                              *)
(***************************************************************************)
C1_BoundRespected ==
    \A c \in Calls :
        Scanning(c) =>
            LET limit == ArgsOf(c).limit IN
            /\ limit = Undefined =>
                   \A r \in ResultsOf(c) : Len(r) <= 50
            /\ (limit # Undefined /\ limit[1] >= 1) =>
                   \A r \in ResultsOf(c) : Len(r) <= limit[1]

\* a scan with the limit omitted has returned exactly 50 messages out of a
\* batch that held more matches
C1_Witness ==
    \E c \in Calls :
        /\ Scanning(c) /\ Succeeded(c)
        /\ ArgsOf(c).limit = Undefined
        /\ Len(response[c].messages) = 50
        /\ lastBatch[c].exit = "break"
        /\ lastBatch[c].evaluated < lastBatch[c].size

(***************************************************************************)
(* C2.  Every message of a scan result satisfies every filter the query    *)
(* supplies: the keyword occurs in its content ignoring case, its author   *)
(* name or author id equals the author argument, it has an attachment when *)
(* has_attachments is true, and its timestamp is neither before start_date *)
(* nor after end_date.                                                     *)
(***************************************************************************)
ContainsIgnoringCase(text, word) ==
    \E off \in 0..(Len(text) - Len(word)) :
        \A j \in 1..Len(word) : LowerChar(text[off + j]) = LowerChar(word[j])

SatisfiesQuery(r, a) ==
    /\ (a.keyword # Undefined /\ a.keyword[1] # <<>>) =>
           ContainsIgnoringCase(r.content, a.keyword[1])
    /\ (a.author # Undefined /\ a.author[1] # "") =>
           (r.author = a.author[1] \/ r.authorId = a.author[1])
    /\ (a.has_attachments = Some(TRUE)) => Len(r.attachments) >= 1
    /\ ValidDate(a.start_date) => r.timestamp.ms >= a.start_date[1].ms
    /\ ValidDate(a.end_date) => r.timestamp.ms <= a.end_date[1].ms

C2_ResultsSatisfyFilters ==
    \A c \in Calls :
        Scanning(c) =>
            \A r \in ResultsOf(c) :
                \A i \in 1..Len(r) : SatisfiesQuery(r[i], ArgsOf(c))

\* a scan with two filters supplied has returned matches, having passed
\* over messages that fail a filter
C2_Witness ==
    \E c \in Calls :
        /\ Scanning(c) /\ Succeeded(c)
        /\ ArgsOf(c).keyword # Undefined
        /\ ArgsOf(c).has_attachments = Some(TRUE)
        /\ Len(response[c].messages) >= 2
        /\ Len(response[c].messages) < totalFetched[c]

(***************************************************************************)
(* C3.  The message sequence of a scan result is non-increasing in         *)
(* timestamp, in whatever order the collaborator delivers a batch (every   *)
(* batch holding only messages older than the cursor it was asked with).   *)
(***************************************************************************)
NonIncreasing(r) ==
    \A i \in 1..(Len(r) - 1) : r[i].timestamp.ms >= r[i + 1].timestamp.ms

C3_NewestFirst ==
    \A c \in Calls : \A r \in ResultsOf(c) : NonIncreasing(r)

\* a result drawn from two batches that were delivered oldest first
C3_Witness ==
    \E c \in Calls :
        /\ Succeeded(c)
        /\ history.order = "oldestFirst"
        /\ Len(requests[c]) >= 2
        /\ Len(response[c].messages) >= 3
        /\ response[c].messages[1].timestamp.ms
               > response[c].messages[Len(response[c].messages)].timestamp.ms

(***************************************************************************)
(* C4.  Start-date short-circuit: no message older than start_date is ever *)
(* in the result, and once the for loop has reached a message older than   *)
(* start_date the invocation is over: the handler has returned and no      *)
(* messages.fetch call was issued after the one that brought that batch.   *)
(***************************************************************************)
\* the for loop of the latest batch was entered for a message older than
\* start_date
ReachedOlderThanStart(c) ==
    /\ lastBatch[c].size > 0
    /\ \E arr \in {LatestArray(c)} :
           \E i \in 1..lastBatch[c].evaluated :
               arr[i].createdTimestamp < ArgsOf(c).start_date[1].ms

C4_StartDateShortCircuit ==
    \A c \in Calls :
        (Scanning(c) /\ ValidDate(ArgsOf(c).start_date)) =>
            /\ \A r \in ResultsOf(c) : \A i \in 1..Len(r) :
                   r[i].timestamp.ms >= ArgsOf(c).start_date[1].ms
            /\ ReachedOlderThanStart(c) =>
                   /\ pc[c] = "done"
                   /\ Len(requests[c]) = lastBatch[c].iteration

\* the scan ended on the start date inside its second batch, short of the
\* target, with matches collected and an older batch left unfetched
C4_Witness ==
    \E c \in Calls :
        /\ Scanning(c) /\ Succeeded(c)
        /\ ValidDate(ArgsOf(c).start_date)
        /\ ReachedOlderThanStart(c)
        /\ Len(requests[c]) = 2
        /\ Len(response[c].messages) >= 1
        /\ Len(response[c].messages) < targetLimit(params[c])
        /\ LatestArray(c)[lastBatch[c].size].id > 1

(***************************************************************************)
(* C5.  End-date skip, not stop: a message newer than end_date is never in *)
(* the result; reaching one does not end the scan (the rest of the batch   *)
(* is still evaluated, the next batch still fetched); and an in-window     *)
(* match that the scan reaches after a too-new message is returned.        *)
(***************************************************************************)
TooNew(c, msg) == msg.createdTimestamp > ArgsOf(c).end_date[1].ms

TooOld(c, msg) ==
    ValidDate(ArgsOf(c).start_date)
    /\ msg.createdTimestamp < ArgsOf(c).start_date[1].ms

C5_EndDateSkipsOnly ==
    \A c \in Calls :
        (Scanning(c) /\ ValidDate(ArgsOf(c).end_date)) =>
            /\ \A r \in ResultsOf(c) : \A i \in 1..Len(r) :
                   r[i].timestamp.ms <= ArgsOf(c).end_date[1].ms
            /\ lastBatch[c].size > 0 =>
                   \A arr \in {LatestArray(c)}, e \in {lastBatch[c].evaluated} :
                       /\ \A i \in 1..e :
                              (TooNew(c, arr[i]) /\ ~TooOld(c, arr[i]) /\ i < Len(arr))
                                  => e > i
                       /\ ( /\ \E i \in 1..e : TooNew(c, arr[i])
                            /\ lastBatch[c].exit = "end"
                            /\ lastBatch[c].size = 100
                            /\ lastBatch[c].iteration < 10 )
                              => Len(requests[c]) > lastBatch[c].iteration
                       /\ (pc[c] = "done" /\ ~FetchFailed(c)) =>
                              \A i \in 1..e :
                                  ( /\ SatisfiesQuery(Projection(arr[i]), ArgsOf(c))
                                    /\ \E j \in 1..(i - 1) : TooNew(c, arr[j]) )
                                      => \E k \in 1..Len(response[c].messages) :
                                             response[c].messages[k].id = arr[i].id

(***************************************************************************)
(* C6.  Iteration budget: a scan whose filters match no message of a       *)
(* history longer than ten batches issues at most 10 messages.fetch calls  *)
(* and then returns a success response with an empty message list and a    *)
(* populated summary.                                                      *)
(***************************************************************************)
MatchesNothing(c) ==
    \A id \in 1..history.len :
        ~SatisfiesQuery(Projection(Message(history, id)), ArgsOf(c))

\* the scan of invocation c ran to its end with no collaborator call failing
ScanCompleted(c) ==
    Scanning(c) /\ pc[c] = "done" /\ channel[c] = "text" /\ ~FetchFailed(c)

C6_BudgetThenEmptySuccess ==
    \A c \in Calls :
        /\ Len(requests[c]) <= 10
        /\ (ScanCompleted(c) /\ history.len > 1000) =>
               \/ /\ response[c].form = "Advanced search results"
                  /\ response[c].messages = <<>>
                  /\ response[c].summary.present
               \/ ~MatchesNothing(c)

(***************************************************************************)
(* C7.  Exhaustion: when a batch of fewer than 100 messages has been       *)
(* received, the scan processes it and no further messages.fetch call is   *)
(* issued, whatever the accumulator and the iteration counter hold; an     *)
(* empty batch ends the scan as a success, not as a failure.               *)
(***************************************************************************)
C7_ShortBatchEndsScan ==
    \A c \in Calls :
        (Scanning(c) /\ lastBatch[c].iteration >= 1 /\ lastBatch[c].size < 100) =>
            /\ pc[c] = "done"
            /\ Len(requests[c]) = lastBatch[c].iteration
            /\ lastBatch[c].size = 0 => Succeeded(c)

(***************************************************************************)
(* C8.  Every failure of a tool invocation (no arguments, unknown tool, no *)
(* bot token, login or channel fetch failing, channel missing or not text  *)
(* based, a messages.fetch call failing at any iteration) ends in a normal *)
(* response whose text is `Error: <message>`, carrying none of the matches *)
(* accumulated before the failure; the handler never ends otherwise than   *)
(* by returning a response.                                                *)
(***************************************************************************)
FailureOccurred(c) ==
    pc[c] = "done" /\ (~Scanning(c) \/ channel[c] # "text" \/ FetchFailed(c))

C8_FailuresBecomeErrorResponses ==
    \A c \in Calls :
        /\ pc[c] = "done" =>
               response[c].form \in
                   {"Error: ${message}", "Advanced search results",
                    "Retrieved ${n} messages matching criteria"}
        /\ FailureOccurred(c) =>
               /\ response[c].form = "Error: ${message}"
               /\ response[c].message # ""
               /\ response[c].messages = <<>>
               /\ ~response[c].summary.present

\* a messages.fetch call failed after earlier batches had produced matches
C8_Witness ==
    \E c \in Calls :
        /\ FetchFailed(c)
        /\ lastBatch[c].iteration >= 2
        /\ Len(allMessages[c]) >= 1
        /\ Failed(c)

(***************************************************************************)
(* C9.  Malformed date input: when start_date or end_date does not parse,  *)
(* the bound is treated as absent and no error is raised: the invocation   *)
(* returns a success response carrying the messages matched without that   *)
(* bound.                                                                  *)
(***************************************************************************)
C9_MalformedDateIgnored ==
    \A c \in Calls :
        ( /\ ScanCompleted(c)
          /\ \/ MalformedDate(ArgsOf(c).start_date)
             \/ MalformedDate(ArgsOf(c).end_date) ) =>
            /\ Succeeded(c)
            /\ response[c].messages = allMessages[c]

(***************************************************************************)
(* C10.  Every success response of a scan carries the summary record and   *)
(* the matched messages, however the scan ended.                           *)
(***************************************************************************)
C10_SuccessCarriesSummary ==
    \A c \in Calls :
        (Scanning(c) /\ Succeeded(c)) =>
            /\ response[c].summary.present
            /\ response[c].messages = allMessages[c]

(***************************************************************************)
(* C11.  The result of a scan over a history that ends within the          *)
(* iteration budget is exactly the newest-first sequence of the first      *)
(* target-count messages passing every supplied filter, none in between    *)
(* omitted and none repeated; a message whose timestamp equals start_date  *)
(* or end_date passes.  Messages of one timestamp may come in either order.*)
(***************************************************************************)
\* the ids of the messages the query of invocation c selects: inside the
\* before/after window and passing every supplied filter
PassingIds(c) ==
    {id \in 1..history.len :
        /\ ArgsOf(c).before # Undefined => id < ArgsOf(c).before[1]
        /\ ArgsOf(c).after # Undefined => id > ArgsOf(c).after[1]
        /\ SatisfiesQuery(Projection(Message(history, id)), ArgsOf(c))}

\* the target count the query asks for
RequestedCount(c) ==
    IF ArgsOf(c).limit = Undefined THEN 50 ELSE ArgsOf(c).limit[1]

IdsOf(r) == {r[i].id : i \in 1..Len(r)}

C11_ExactResult ==
    \A c \in Calls :
        (Scanning(c) /\ Succeeded(c) /\ history.len <= 10 * 100) =>
            \E r \in {response[c].messages}, pass \in {PassingIds(c)} :
                /\ Len(r) = Min(RequestedCount(c), Cardinality(pass))
                /\ Cardinality(IdsOf(r)) = Len(r)
                /\ IdsOf(r) \subseteq pass
                /\ NonIncreasing(r)
                /\ Len(r) > 0 =>
                       \A id \in pass :
                           createdTimestamp(history, id) > r[Len(r)].timestamp.ms
                               => id \in IdsOf(r)

(***************************************************************************)
(* C12.  Hard cap on the target count: whatever limit the caller supplies, *)
(* the effective target count is within 1..100 and a scan result never     *)
(* holds more than 100 messages.                                           *)
(***************************************************************************)
C12_TargetCapped ==
    \A c \in Calls :
        (Scanning(c) /\ pc[c] # "idle") =>
            /\ targetLimit(params[c]) \in 1..100
            /\ \A r \in ResultsOf(c) : Len(r) <= 100

(***************************************************************************)
(* C13.  Not-ready handling: a tool invoked while the client is not ready  *)
(* is answered with an error response, and the handler calls neither       *)
(* login nor channels.fetch nor messages.fetch for it.                     *)
(***************************************************************************)
C13_NotReadyAnswersError ==
    [][\A c \in Calls :
          (pc[c] = "idle" /\ pc'[c] # "idle" /\ ~ready) =>
              /\ pc'[c] = "done"
              /\ response'[c].form = "Error: ${message}"
              /\ requests'[c] = <<>>]_vars

(***************************************************************************)
(* C14.  Every success response of a scan reports a total-fetched count    *)
(* equal to the sum of the raw sizes of all the batches fetched during the *)
(* scan, a batch whose for loop was cut short (target reached, start date  *)
(* crossed) included.                                                      *)
(***************************************************************************)
\* the sizes of the first k batches invocation c received, added up
RECURSIVE RawSizes(_, _)
RawSizes(c, k) ==
    IF k = 0 THEN 0
    ELSE RawSizes(c, k - 1) + Len(FetchBatch(history, requests[c][k]))

C14_TotalFetchedIsRawSum ==
    \A c \in Calls :
        (Scanning(c) /\ Succeeded(c)) =>
            /\ response[c].summary.present
            /\ response[c].summary.totalFetched = RawSizes(c, lastBatch[c].iteration)

(***************************************************************************)
(* C15.  Two scans in flight at the same time over an unchanged history    *)
(* are independent: under every interleaving of their suspension points    *)
(* each returns the response it returns when run alone, and a step of one  *)
(* invocation leaves the other's accumulator, cursor, iteration counter    *)
(* and total-fetched counter as they were.                                 *)
(***************************************************************************)
\* lines 384-505 run without interruption: the while loop from the given
\* locals to the response
RECURSIVE ScanAlone(_, _, _, _, _, _)
ScanAlone(h, p, msgs, last, iters, total) ==
    IF ~(Len(msgs) < targetLimit(p) /\ iters < maxIterations)
    THEN FinalResponse(p, msgs, total)
    ELSE LET messages == FetchBatch(h, FetchOptions(p, last))
             sorted == SortNewestFirst(messages)
             loop == ForEachMessage(sorted, msgs, p, ParseDateParam(p.startDate),
                                    ParseDateParam(p.endDate))
         IN  IF Len(messages) = 0
             THEN FinalResponse(p, msgs, total)
             ELSE IF loop.exit = "return"
             THEN RetrievedResponse(loop.allMessages)
             ELSE IF Len(messages) < BatchLimit
             THEN FinalResponse(p, loop.allMessages, total + Len(messages))
             ELSE ScanAlone(h, p, loop.allMessages, Some(sorted[Len(sorted)].id),
                            iters + 1, total + Len(messages))

C15_Independent ==
    /\ [](\A c \in Calls :
            ScanCompleted(c) =>
                response[c] = ScanAlone(history, params[c], <<>>, params[c].before, 0, 0))
    /\ [][\E c \in Calls : \A d \in Calls \ {c} :
            /\ allMessages'[d] = allMessages[d]
            /\ lastMessageId'[d] = lastMessageId[d]
            /\ iterations'[d] = iterations[d]
            /\ totalFetched'[d] = totalFetched[d]]_vars

\* both invocations are scans in their later batches at the same time: one
\* has returned its result while the other is suspended at messages.fetch
C15_Witness ==
    \E c \in Calls, d \in Calls :
        /\ c # d
        /\ ScanCompleted(c) /\ Succeeded(c) /\ Len(requests[c]) >= 2
        /\ Len(response[c].messages) >= 1
        /\ Scanning(d) /\ pc[d] = "fetching" /\ Len(requests[d]) >= 2
        /\ ArgsOf(c) # ArgsOf(d)

(***************************************************************************)
(* C16.  Cursor protocol: the first messages.fetch of a scan carries the   *)
(* query's `before` (none when absent); every later one carries the id of  *)
(* the last message of the previous batch after its newest-first sort, a   *)
(* message of the oldest timestamp in that batch; every request carries    *)
(* limit 100 and the query's `after` (none when absent).  The cursor of a  *)
(* request is compared with the previous batch while that request is in    *)
(* flight, which every request is when it is issued.                       *)
(***************************************************************************)
C16_CursorProtocol ==
    \A c \in Calls :
        (Scanning(c) /\ Len(requests[c]) >= 1) =>
            \E n \in {Len(requests[c])} :
                /\ \A k \in 1..n :
                       /\ requests[c][k].limit = 100
                       /\ requests[c][k].after = ArgsOf(c).after
                /\ requests[c][1].before = ArgsOf(c).before
                /\ (n >= 2 /\ pc[c] = "fetching") =>
                       \E prev \in {SortNewestFirst(
                                       FetchBatch(history, requests[c][n - 1]))} :
                           /\ Len(prev) = 100
                           /\ requests[c][n].before = Some(prev[Len(prev)].id)
                           /\ \A i \in 1..Len(prev) :
                                  prev[i].createdTimestamp
                                      >= prev[Len(prev)].createdTimestamp

\* a scan with `after` supplied is in its third request, the cursor having
\* moved twice
C16_Witness ==
    \E c \in Calls :
        /\ Scanning(c)
        /\ Len(requests[c]) >= 3
        /\ ArgsOf(c).after # Undefined
        /\ requests[c][3].before # requests[c][2].before
        /\ requests[c][3].after = ArgsOf(c).after

(***************************************************************************)
(* C17.  No message id appears twice in a scan result, in whatever order a *)
(* batch is delivered and also when messages of different ids share a      *)
(* timestamp (every batch holding only ids older than its cursor).         *)
(***************************************************************************)
C17_NoRepeatedId ==
    \A c \in Calls :
        \A r \in ResultsOf(c) : Cardinality(IdsOf(r)) = Len(r)

(***************************************************************************)
(* C18.  Session bootstrap under concurrency: login is never in progress   *)
(* for two invocations at once; an invocation that arrives while a login   *)
(* is in progress does not start another one.                              *)
(***************************************************************************)
C18_SingleLogin ==
    Cardinality({c \in Calls : pc[c] = "login"}) <= 1

====
